---- MODULE Spec2Model ----
(***************************************************************************)
(* Model of the curses progress dashboard of wordfence-cli                 *)
(* (src/wordfence/cli/scan/progress.py): the boxes, the BoxLayout row      *)
(* packer, the derived geometry (get_layout_values / requirements_met),    *)
(* the ProgressDisplay handlers and the process-wide registry _displays.   *)
(***************************************************************************)
EXTENDS Integers, Sequences, FiniteSets, TLC

\* ------------------------------------------------------------------ bounds
MaxRows == 14
MaxCols == 86
MaxWorkers == 3
MaxPadding == 2
MaxDisplays == 3
MaxSummaryChunks == 4
SummaryChunk == 50
BannerRows == 3

\* ------------------------------------------------------- program constants
METRIC_BOX_WIDTH == 39
METRICS_PADDING == 1
METRICS_COUNT == 4
ExitMessageLen == 21

VARIABLES
    rows,          \* terminal height (curses.LINES, os.get_terminal_size().lines)
    cols,          \* terminal width  (curses.COLS,  os.get_terminal_size().columns)
    banner_rows,   \* row count of get_welcome_banner(), 0 when it returns None
    displays,      \* the registry _displays: a list of dashboard ids
    terminal,      \* "normal" | "curses": the mode of the physical terminal
    dash,          \* the ProgressDisplay objects, by id
    layout,        \* a BoxLayout object
    placed,        \* the boxes the BoxLayout object has positioned, in order
    lastop         \* the last call made: its name, arguments, outcome and screen trace

vars == <<rows, cols, banner_rows, displays, terminal, dash, layout, placed, lastop>>

\* ----------------------------------------------------------------- helpers
Max(a, b) == IF a >= b THEN a ELSE b

\* math.ceil(a / b) for a >= 0, b > 0
ceil(a, b) == (a + b - 1) \div b

RECURSIVE SeqMax(_)
SeqMax(s) == IF s = <<>> THEN -1 ELSE Max(Head(s), SeqMax(Tail(s)))

\* ------------------------------------------------------------------- boxes
MetricBox == [kind |-> "metric", border |-> TRUE,
              height |-> METRICS_COUNT, width |-> METRIC_BOX_WIDTH]

BannerBox(parent_cols, banner) ==
    [kind |-> "banner", border |-> FALSE, height |-> banner, width |-> parent_cols]

compute_size(box) ==
    IF box.border
    THEN [height |-> box.height + 2, width |-> box.width + 2]
    ELSE [height |-> box.height, width |-> box.width]

\* --------------------------------------------------------------- BoxLayout
BoxLayout(lines, columns, padding) ==
    [lines |-> lines, cols |-> columns, padding |-> padding,
     x |-> 0, y |-> 0, max_row_height |-> 0]

\* The wrap test of BoxLayout.position, as a mutant that also wraps a box
\* exactly as wide as the remaining columns.
wraps_on_tie(l, width) == l.cols - l.x <= width

wraps(l, width) == l.cols - l.x < width

\* BoxLayout.position: the layout after the call, and the window it placed.
position(l, box) ==
    LET size == compute_size(box)
        wrap == wraps(l, size.width)
        y    == IF wrap THEN l.y + l.max_row_height + l.padding ELSE l.y
        x    == IF wrap THEN 0 ELSE l.x
        mrh  == IF wrap THEN 0 ELSE l.max_row_height
    IN  [layout |-> [l EXCEPT !.y = y,
                              !.x = x + size.width + l.padding,
                              !.max_row_height = Max(size.height, mrh)],
         window |-> [kind |-> box.kind, y |-> y, x |-> x,
                     height |-> size.height, width |-> size.width]]

\* One layout pass over a list of boxes: the windows in order.
RECURSIVE layout_pass(_, _)
layout_pass(l, boxes) ==
    IF boxes = <<>> THEN <<>>
    ELSE LET p == position(l, Head(boxes))
         IN  <<p.window>> \o layout_pass(p.layout, Tail(boxes))

\* The boxes of a dashboard in presentation order: the banner first if there
\* is one, then one metric box per worker.
dashboard_boxes(worker_count, banner, columns) ==
    (IF banner > 0 THEN <<BannerBox(columns, banner)>> ELSE <<>>)
        \o [i \in 1..worker_count |-> MetricBox]

\* ProgressDisplay._display_metrics / _initialize_metric_boxes: a pass with
\* the default padding over the dashboard's boxes.
display_metrics(worker_count, banner, lines, columns) ==
    layout_pass(BoxLayout(lines, columns, METRICS_PADDING),
                dashboard_boxes(worker_count, banner, columns))

\* Bottom screen row of the lowest window of a pass.
lowest_row(windows) == SeqMax([i \in 1..Len(windows) |-> windows[i].y + windows[i].height - 1])

\* --------------------------------------------------------- derived geometry
metric_boxes_per_row(columns, padding) ==
    LET per_row == columns \div METRIC_BOX_WIDTH
        display_length == (per_row * METRIC_BOX_WIDTH) + (padding * per_row - 1)
    IN  IF per_row = 0 THEN 0
        ELSE IF display_length <= columns THEN per_row ELSE per_row - 1

\* ProgressDisplay.get_layout_values with every argument given.  The division
\* worker_count / metrics_per_row raises ZeroDivisionError when
\* metrics_per_row is 0.
get_layout_values(worker_count, banner_height, columns, lines) ==
    LET metric_height == METRICS_COUNT + 2
        metrics_per_row == metric_boxes_per_row(columns, METRICS_PADDING)
    IN  IF metrics_per_row = 0
        THEN [raised |-> "ZeroDivisionError", rows |-> lines, cols |-> columns,
              metrics_per_row |-> 0, metric_rows |-> 0,
              metric_height |-> metric_height, banner_height |-> banner_height,
              last_metric_line |-> 0]
        ELSE LET metric_rows == ceil(worker_count, metrics_per_row)
                 padding == (IF banner_height = 0 THEN 0 ELSE 1) + (metric_rows - 1)
             IN  [raised |-> "none", rows |-> lines, cols |-> columns,
                  metrics_per_row |-> metrics_per_row, metric_rows |-> metric_rows,
                  metric_height |-> metric_height, banner_height |-> banner_height,
                  last_metric_line |->
                      ((metric_height * metric_rows) + banner_height + padding) - 1]

\* ProgressDisplay.requirements_met, as a mutant whose width test admits a
\* terminal exactly METRIC_BOX_WIDTH + 2 columns wide.
requirements_met_ge(worker_count, show_banner, columns, lines, banner) ==
    LET v == get_layout_values(worker_count, IF show_banner THEN banner ELSE 0,
                               columns, lines)
    IN  IF v.raised # "none"
        THEN [raised |-> v.raised, result |-> FALSE, values |-> v]
        ELSE [raised |-> "none",
              result |-> v.rows >= v.last_metric_line
                         /\ v.cols >= (METRIC_BOX_WIDTH + 2),
              values |-> v]

\* ProgressDisplay.requirements_met.  show_banner stands for the answer of
\* should_show_welcome_banner(show_banner); banner is the row count of
\* get_welcome_banner() (0 for None); the size is os.get_terminal_size().
requirements_met(worker_count, show_banner, columns, lines, banner) ==
    LET v == get_layout_values(worker_count, IF show_banner THEN banner ELSE 0,
                               columns, lines)
    IN  IF v.raised # "none"
        THEN [raised |-> v.raised, result |-> FALSE, values |-> v]
        ELSE [raised |-> "none",
              result |-> v.rows >= v.last_metric_line
                         /\ v.cols > (METRIC_BOX_WIDTH + 2),
              values |-> v]

\* ------------------------------------------------------------ screen trace
\* A curses call of a handler: the box it is made on (0 for stdscr and the
\* curses module) and whether it writes to the physical screen at once.
Call(name, box, physical) == [call |-> name, box |-> box, physical |-> physical]

\* Box.resize
box_resize(k) ==
    <<Call("window.clear", k, FALSE), Call("window.refresh", k, TRUE),
      Call("window.resize", k, FALSE)>>

\* Box.render
box_render(k) == <<Call("render", k, FALSE)>>

\* Box.update
box_update(k) ==
    box_resize(k) \o box_render(k)
        \o <<Call("window.syncup", k, FALSE), Call("window.noutrefresh", k, FALSE)>>

\* ProgressDisplay.refresh
refresh == <<Call("stdscr.noutrefresh", 0, FALSE), Call("curses.doupdate", 0, TRUE)>>

RECURSIVE updates(_, _)
updates(k, n) == IF k > n THEN <<>> ELSE box_update(k) \o updates(k + 1, n)

\* The calls of ProgressDisplay._display_metrics on n boxes, in order.
display_metrics_calls(n) == updates(1, n)

\* ------------------------------------------------------------ the registry
RECURSIVE remove(_, _)
\* list.remove: the list without the first occurrence of d
remove(list, d) ==
    IF list = <<>> THEN <<>>
    ELSE IF Head(list) = d THEN Tail(list)
    ELSE <<Head(list)>> \o remove(Tail(list), d)

InList(list, d) == \E i \in 1..Len(list) : list[i] = d

RECURSIVE reset_loop(_, _, _)
\* `for display in _displays: display.end()`: the list iterator keeps an
\* index into the list that end() shrinks under it.
reset_loop(list, i, ended) ==
    IF i > Len(list) THEN [displays |-> list, ended |-> ended]
    ELSE reset_loop(remove(list, list[i]), i + 1, ended \cup {list[i]})

\* ----------------------------------------------------------------- objects
Displays == 1..MaxDisplays

NoDisplay == [constructed |-> FALSE, worker_count |-> 0, banner_box |-> 0,
              windows |-> <<>>, finished |-> FALSE, ended |-> FALSE]

NoRet == [value |-> "None"]

NoOp == [op |-> "none", display |-> 0, raised |-> "none", ret |-> NoRet,
         screen |-> <<>>]

SummaryLengths == {i * SummaryChunk : i \in 0..MaxSummaryChunks}

\* ----------------------------------------------------------------- actions
\* ProgressDisplay.__init__ / _setup_curses / _initialize_metric_boxes
Construct(d, w) ==
    /\ ~dash[d].constructed
    /\ \A e \in Displays : e < d => dash[e].constructed
    /\ LET n == w + (IF banner_rows > 0 THEN 1 ELSE 0)
       IN  /\ displays' = Append(displays, d)
           /\ terminal' = "curses"
           /\ dash' = [dash EXCEPT ![d] =
                         [constructed |-> TRUE, worker_count |-> w,
                          banner_box |-> banner_rows,
                          windows |-> display_metrics(w, banner_rows, rows, cols),
                          finished |-> FALSE, ended |-> FALSE]]
           /\ lastop' = [op |-> "construct", display |-> d, raised |-> "none",
                         ret |-> NoRet,
                         screen |-> display_metrics_calls(n) \o refresh \o refresh]
    /\ UNCHANGED <<rows, cols, banner_rows, layout, placed>>

\* ProgressDisplay.handle_update
HandleUpdate(d) ==
    /\ dash[d].constructed
    /\ LET n == dash[d].worker_count + (IF dash[d].banner_box > 0 THEN 1 ELSE 0)
       IN  /\ dash' = [dash EXCEPT ![d].windows =
                         display_metrics(dash[d].worker_count, dash[d].banner_box,
                                         rows, cols)]
           /\ terminal' = "curses"
           /\ lastop' = [op |-> "handle_update", display |-> d, raised |-> "none",
                         ret |-> NoRet,
                         screen |-> display_metrics_calls(n) \o refresh]
    /\ UNCHANGED <<rows, cols, banner_rows, displays, layout, placed>>

\* ProgressDisplay.scan_finished_handler, as a mutant that ends the dashboard
\* as soon as the summary is drawn.
ScanFinishedHandlerEnds(d, length) ==
    /\ dash[d].constructed
    /\ displays' = remove(displays, d)
    /\ terminal' = "normal"
    /\ dash' = [dash EXCEPT ![d].finished = TRUE, ![d].ended = TRUE]
    /\ lastop' = [op |-> "scan_finished_handler", display |-> d, raised |-> "none",
                  ret |-> NoRet, screen |-> <<>>]
    /\ UNCHANGED <<rows, cols, banner_rows, layout, placed>>

\* ProgressDisplay.scan_finished_handler; length is len(messages.results).
ScanFinishedHandler(d, length) ==
    /\ dash[d].constructed
    /\ LET vals == get_layout_values(Len(dash[d].windows)
                                       - (IF dash[d].banner_box > 0 THEN 1 ELSE 0),
                                     dash[d].banner_box, cols, rows)
       IN  IF vals.raised # "none"
           THEN /\ lastop' = [op |-> "scan_finished_handler", display |-> d,
                              raised |-> vals.raised, ret |-> NoRet, screen |-> <<>>]
                /\ UNCHANGED <<terminal, dash>>
           ELSE LET message_lines == ceil(length, vals.cols)
                                       + ceil(ExitMessageLen, vals.cols)
                    below == vals.last_metric_line + 1
                    fits == ~((below + message_lines) > vals.rows)
                    vertical_offset == IF fits THEN below
                                       ELSE vals.rows - message_lines
                    ret == [last_metric_line |-> vals.last_metric_line,
                            message_lines |-> message_lines, fits |-> fits,
                            vertical_offset |-> vertical_offset,
                            exit_line |-> vertical_offset + message_lines - 1]
                IN  IF vertical_offset < 0 \/ vertical_offset >= vals.rows
                    THEN \* stdscr.move outside the window raises curses.error
                         /\ lastop' = [op |-> "scan_finished_handler", display |-> d,
                                       raised |-> "curses.error", ret |-> ret,
                                       screen |-> <<>>]
                         /\ UNCHANGED <<terminal, dash>>
                    ELSE /\ lastop' = [op |-> "scan_finished_handler", display |-> d,
                                       raised |-> "none", ret |-> ret,
                                       screen |-> <<Call("stdscr.refresh", 0, TRUE)>>]
                         /\ terminal' = "curses"
                         /\ dash' = [dash EXCEPT ![d].finished = TRUE]
    /\ UNCHANGED <<rows, cols, banner_rows, displays, layout, placed>>

\* The body of ProgressDisplay.end: curses.endwin(), then
\* _displays.remove(self), which raises ValueError when self is not listed.
end(d, op) ==
    /\ terminal' = "normal"
    /\ dash' = [dash EXCEPT ![d].ended = TRUE]
    /\ displays' = remove(displays, d)
    /\ lastop' = [op |-> op, display |-> d,
                  raised |-> IF InList(displays, d) THEN "none" ELSE "ValueError",
                  ret |-> [was_ended |-> dash[d].ended, before |-> displays],
                  screen |-> <<>>]
    /\ UNCHANGED <<rows, cols, banner_rows, layout, placed>>

\* ProgressDisplay.end
End(d) == dash[d].constructed /\ end(d, "end")

\* ProgressDisplay.end_on_input, once getkey() has returned a key
EndOnInput(d) == dash[d].constructed /\ end(d, "end_on_input")

\* reset_terminal
ResetTerminal ==
    LET r == reset_loop(displays, 1, {})
    IN  /\ displays' = r.displays
        /\ terminal' = IF r.ended = {} THEN terminal ELSE "normal"
        /\ dash' = [d \in Displays |->
                      IF d \in r.ended THEN [dash[d] EXCEPT !.ended = TRUE] ELSE dash[d]]
        /\ lastop' = [op |-> "reset_terminal", display |-> 0, raised |-> "none",
                      ret |-> [before |-> displays, ended |-> r.ended],
                      screen |-> <<>>]
        /\ UNCHANGED <<rows, cols, banner_rows, layout, placed>>

\* ProgressDisplay.get_layout_values(worker_count, banner_height, cols, rows)
GetLayoutValues(w, banner_height) ==
    LET v == get_layout_values(w, banner_height, cols, rows)
    IN  /\ lastop' = [op |-> "get_layout_values", display |-> 0, raised |-> v.raised,
                      ret |-> [worker_count |-> w, values |-> v], screen |-> <<>>]
        /\ UNCHANGED <<rows, cols, banner_rows, displays, terminal, dash, layout, placed>>

\* ProgressDisplay.requirements_met(worker_count, show_banner)
RequirementsMet(w, show_banner) ==
    LET r == requirements_met(w, show_banner, cols, rows, banner_rows)
    IN  /\ lastop' = [op |-> "requirements_met", display |-> 0, raised |-> r.raised,
                      ret |-> [worker_count |-> w, show_banner |-> show_banner,
                               result |-> r.result, values |-> r.values],
                      screen |-> <<>>]
        /\ UNCHANGED <<rows, cols, banner_rows, displays, terminal, dash, layout, placed>>

\* BoxLayout.__init__
NewBoxLayout(padding) ==
    /\ layout' = BoxLayout(rows, cols, padding)
    /\ placed' = <<>>
    /\ UNCHANGED <<rows, cols, banner_rows, displays, terminal, dash, lastop>>

\* BoxLayout.position on the next box of a dashboard: the banner first if
\* there is one, then the metric boxes.
BoxLayoutPosition(box) ==
    /\ Len(placed) < MaxWorkers + (IF banner_rows > 0 THEN 1 ELSE 0)
    /\ box.kind = "banner" <=> (banner_rows > 0 /\ placed = <<>>)
    /\ LET p == position(layout, box)
       IN  /\ layout' = p.layout
           /\ placed' = Append(placed, p.window)
    /\ UNCHANGED <<rows, cols, banner_rows, displays, terminal, dash, lastop>>

\* ---------------------------------------------------------- specifications
InitObjects ==
    /\ displays = <<>>
    /\ terminal = "normal"
    /\ dash = [d \in Displays |-> NoDisplay]
    /\ layout = BoxLayout(rows, cols, METRICS_PADDING)
    /\ placed = <<>>
    /\ lastop = NoOp

\* The life cycle of up to MaxDisplays dashboards of MaxWorkers workers and the
\* registry, on a narrow and a wide terminal.
Init ==
    /\ rows = MaxRows
    /\ cols \in {METRIC_BOX_WIDTH - 1, MaxCols}
    /\ banner_rows \in {0, BannerRows}
    /\ InitObjects

Next ==
    \/ \E d \in Displays : Construct(d, MaxWorkers)
    \/ \E d \in Displays : HandleUpdate(d)
    \/ \E d \in Displays, n \in {0, MaxSummaryChunks * SummaryChunk} :
           ScanFinishedHandler(d, n)
    \/ \E d \in Displays : End(d)
    \/ \E d \in Displays : EndOnInput(d)
    \/ ResetTerminal

Spec == Init /\ [][Next]_vars

\* Every terminal size.
LayoutInit ==
    /\ rows \in 1..MaxRows
    /\ cols \in 1..MaxCols
    /\ banner_rows \in {0, BannerRows}
    /\ InitObjects

\* One dashboard, from construction to its summary, on every terminal size.
LayoutNext ==
    \/ \E w \in 1..MaxWorkers : Construct(1, w)
    \/ HandleUpdate(1)
    \/ \E n \in SummaryLengths : ScanFinishedHandler(1, n)

LayoutSpec == LayoutInit /\ [][LayoutNext]_vars

\* The static geometry functions on every terminal size.
GeometryNext ==
    \/ \E w \in 1..MaxWorkers, b \in {0, banner_rows} : GetLayoutValues(w, b)
    \/ \E w \in 1..MaxWorkers, s \in BOOLEAN : RequirementsMet(w, s)

GeometrySpec == LayoutInit /\ [][GeometryNext]_vars

\* The row packer alone, for every padding.
PackerNext ==
    \/ \E p \in 1..MaxPadding : NewBoxLayout(p)
    \/ BoxLayoutPosition(BannerBox(cols, banner_rows))
    \/ BoxLayoutPosition(MetricBox)

PackerSpec == LayoutInit /\ [][PackerNext]_vars

\* ------------------------------------------------------------------ claims
\* Width of a metric panel with its two border columns.
metricPanelFullWidth == compute_size(MetricBox).width

\* The windows a layout pass places for the arguments of the last geometry call.
PassOfLastCall ==
    display_metrics(lastop.ret.worker_count, lastop.ret.values.banner_height,
                    rows, cols)

\* C1: the last_metric_line that get_layout_values returns is the bottom
\* screen row of the lowest panel one BoxLayout pass (padding 1) places for
\* the same worker count, banner height and terminal size.
C1_LayoutValuesAgreeWithPacker ==
    (lastop.op = "get_layout_values" /\ lastop.raised = "none")
        => lastop.ret.values.last_metric_line = lowest_row(PassOfLastCall)

\* C2: when requirements_met returns true, a BoxLayout pass over the banner
\* (if shown) and all metric panels places every panel entirely on screen.
C2_RequirementsMetImpliesFit ==
    (lastop.op = "requirements_met" /\ lastop.raised = "none" /\ lastop.ret.result)
        => \A i \in 1..Len(PassOfLastCall) :
              LET win == PassOfLastCall[i]
              IN  /\ win.y + win.height - 1 <= rows - 1
                  /\ win.x + win.width <= cols

\* C3 as stated: requirements_met returns false whenever
\* cols <= metricPanelFullWidth + 2.  Stated of the calls that return; the
\* calls that raise instead are the subject of C4.
C3_FalseUpToFullWidthPlusTwo ==
    (lastop.op = "requirements_met" /\ lastop.raised = "none"
        /\ cols <= metricPanelFullWidth + 2)
        => lastop.ret.result = FALSE

\* C3 as amended: whenever cols <= METRIC_BOX_WIDTH + 2 (the full width of one
\* bordered metric panel) requirements_met never returns true, for every
\* worker count, row count and banner: it returns false from METRIC_BOX_WIDTH
\* columns on, and below that it raises ZeroDivisionError.
C3_FalseUpToFullWidth ==
    (lastop.op = "requirements_met" /\ cols <= METRIC_BOX_WIDTH + 2)
        => /\ lastop.ret.result = FALSE
           /\ cols >= METRIC_BOX_WIDTH => lastop.raised = "none"
           /\ cols < METRIC_BOX_WIDTH => lastop.raised = "ZeroDivisionError"

\* A call that only the width test turns down: the terminal is exactly one
\* panel wide and has rows enough.
C3_Witness ==
    /\ lastop.op = "requirements_met"
    /\ lastop.raised = "none"
    /\ cols = metricPanelFullWidth
    /\ rows >= lastop.ret.values.last_metric_line
    /\ lastop.ret.result = FALSE

\* C4: when metric_boxes_per_row is 0, get_layout_values and requirements_met
\* complete without raising, and requirements_met returns false.
C4_DegenerateNotFatal ==
    (lastop.op \in {"get_layout_values", "requirements_met"}
        /\ metric_boxes_per_row(cols, METRICS_PADDING) = 0)
        => /\ lastop.raised = "none"
           /\ lastop.op = "requirements_met" => lastop.ret.result = FALSE

\* C5: after reset_terminal returns, end() has run on every dashboard that
\* was registered and the registry is empty.
C5_ResetEndsAll ==
    lastop.op = "reset_terminal"
        => /\ displays = <<>>
           /\ \A i \in 1..Len(lastop.ret.before) : dash[lastop.ret.before[i]].ended

\* C6: end() on a dashboard that has already been ended completes without
\* error and changes nothing: the terminal is in normal mode, the dashboard is
\* absent from the registry and the other entries are untouched.
C6_EndIdempotent ==
    (lastop.op = "end" /\ lastop.ret.was_ended)
        => /\ lastop.raised = "none"
           /\ terminal = "normal"
           /\ ~InList(displays, lastop.display)
           /\ displays = lastop.ret.before

\* C7: the summary block of scan_finished_handler starts at
\* last_metric_line + 1 when it fits, ends at rows - 1 when it does not, and
\* in both cases lies within rows 0..rows - 1.  Stated of the calls that get
\* their layout values; those that raise ZeroDivisionError are the subject of C4.
C7_SummaryOnScreen ==
    (lastop.op = "scan_finished_handler" /\ lastop.raised # "ZeroDivisionError")
        => /\ lastop.ret.fits
                => lastop.ret.vertical_offset = lastop.ret.last_metric_line + 1
           /\ ~lastop.ret.fits => lastop.ret.exit_line = rows - 1
           /\ lastop.ret.vertical_offset >= 0
           /\ lastop.ret.exit_line <= rows - 1

\* C8: a step that restores the terminal to normal mode, takes a dashboard
\* out of the registry or ends a dashboard is a call of end, end_on_input or
\* reset_terminal; construct, handle_update and scan_finished_handler never
\* terminate a dashboard.
C8_TerminatedOnlyByCaller ==
    [][((terminal = "curses" /\ terminal' = "normal")
         \/ (\E d \in Displays : InList(displays, d) /\ ~InList(displays', d))
         \/ (\E d \in Displays : ~dash[d].ended /\ dash'[d].ended))
        => lastop'.op \in {"end", "end_on_input", "reset_terminal"}]_vars

\* A dashboard whose summary has just been drawn is still live.
C8_Witness ==
    /\ lastop.op = "scan_finished_handler"
    /\ lastop.raised = "none"
    /\ dash[lastop.display].finished
    /\ ~dash[lastop.display].ended
    /\ InList(displays, lastop.display)
    /\ terminal = "curses"

\* C9: handle_update writes to the physical screen exactly once, after every
\* panel has been updated, and no panel's update() writes to it.
C9_SingleFlush ==
    lastop.op = "handle_update"
        => /\ {i \in 1..Len(lastop.screen) : lastop.screen[i].physical}
                 = {Len(lastop.screen)}
           /\ \A i \in 1..Len(lastop.screen) :
                 lastop.screen[i].box # 0 => ~lastop.screen[i].physical

\* Height of the tallest positioned panel of the row at y.
TallestInRow(y) ==
    SeqMax([i \in 1..Len(placed) |-> IF placed[i].y = y THEN placed[i].height ELSE 0])

\* C10: after any number of BoxLayout.position calls, panels of one row lie
\* in disjoint column ranges at least the padding apart, a panel of a later
\* row starts below the tallest panel of every earlier row plus the padding,
\* no two panels overlap, and a panel exactly as wide as the remaining columns
\* stays on the current row.
C10_PackerNoOverlap ==
    /\ \A i, j \in 1..Len(placed) : i < j =>
          /\ placed[i].y <= placed[j].y
          /\ placed[i].y = placed[j].y
                => placed[i].x + placed[i].width + layout.padding <= placed[j].x
          /\ placed[i].y < placed[j].y
                => placed[i].y + TallestInRow(placed[i].y) + layout.padding
                       <= placed[j].y
          /\ \/ placed[i].x + placed[i].width <= placed[j].x
             \/ placed[i].y + placed[i].height <= placed[j].y
    /\ \A i \in 1..Len(placed) - 1 :
          layout.cols - (placed[i].x + placed[i].width + layout.padding)
                = placed[i + 1].width
             => /\ placed[i + 1].y = placed[i].y
                /\ placed[i + 1].x = placed[i].x + placed[i].width + layout.padding
    /\ (placed # <<>> /\ layout.cols = placed[1].width)
          => (placed[1].y = 0 /\ placed[1].x = 0)

\* Two panels share the first row, the second exactly filling it, and a third
\* has wrapped below them.
C10_Witness ==
    /\ Len(placed) >= 3
    /\ placed[1].y = placed[2].y
    /\ layout.cols - placed[2].x = placed[2].width
    /\ placed[3].y > placed[2].y

====
